---- MODULE Spec2Model ----
(***************************************************************************)
(* Serpentine binning (serpentine.py): the single-trial merger             *)
(* serpentin_iteration and the multi-trial driver serpentin_binning.       *)
(*                                                                         *)
(* Numbers.  Input cells are non-negative integer counts.  The cells of an *)
(* array are exact rationals <<n, d>> in lowest terms (an integer v is     *)
(* <<v, 1>>), with the IEEE special values <<1,0>> (inf), <<-1,0>> (-inf)  *)
(* and <<0,0>> (NaN); an array carries its dtype, and float32 rounding is  *)
(* not modelled.  A log2 value is kept symbolically as <<kind, p, m>>,     *)
(* read log2(p)/m.                                                         *)
(* Arrays are functions over 0-based flat indices, as numpy's are.         *)
(* Python's None is the empty tuple and any other value x is <<x>>.        *)
(***************************************************************************)
EXTENDS Integers, Sequences, FiniteSets, TLC

VARIABLES args, heap, trial, drv

vars == <<args, heap, trial, drv>>

--------------------------------------------------------------------------
(* Bounds of the model *)

MaxVal == 1
MaxThreshold == 2
MaxIterations == 2

TrialShapes == {<<1, 1>>, <<1, 2>>, <<2, 1>>, <<2, 2>>}
DriverShapes == {<<1, 1>>, <<1, 2>>, <<1, 3>>}

(* parallel: not positive, sequential, a pool of two workers *)
PoolSizes == {0, 1, 2}

--------------------------------------------------------------------------
(* Python values *)

None == <<>>
Some(x) == <<x>>
Get(o) == o[1]

Range(s) == {s[x] : x \in DOMAIN s}

Abs(x) == IF x < 0 THEN -x ELSE x

RECURSIVE GCD(_, _)
GCD(x, y) == IF y = 0 THEN x ELSE GCD(y, x % y)

--------------------------------------------------------------------------
(* Floating-point values as exact rationals with inf and NaN *)

NaN == <<0, 0>>

Sign(x) == IF x > 0 THEN 1 ELSE IF x < 0 THEN -1 ELSE 0

Norm(n, d) ==
    IF d = 0 THEN <<Sign(n), 0>>
    ELSE LET g == GCD(Abs(n), Abs(d))
             s == IF d < 0 THEN -1 ELSE 1
         IN <<(s * n) \div g, (s * d) \div g>>

Float(v) == <<v, 1>>

RAdd(x, y) ==
    IF x = NaN \/ y = NaN THEN NaN
    ELSE IF x[2] = 0 /\ y[2] = 0 THEN (IF x[1] = y[1] THEN x ELSE NaN)
    ELSE IF x[2] = 0 THEN x
    ELSE IF y[2] = 0 THEN y
    ELSE Norm(x[1] * y[2] + y[1] * x[2], x[2] * y[2])

RNeg(x) == <<-x[1], x[2]>>

RSub(x, y) == RAdd(x, RNeg(y))

RMul(x, y) ==
    IF x = NaN \/ y = NaN THEN NaN
    ELSE IF (x[2] = 0 /\ y[1] = 0) \/ (y[2] = 0 /\ x[1] = 0) THEN NaN
    ELSE Norm(x[1] * y[1], x[2] * y[2])

RDiv(x, y) ==
    IF x = NaN \/ y = NaN THEN NaN
    ELSE IF x[2] = 0 /\ y[2] = 0 THEN NaN
    ELSE IF y[2] = 0 THEN <<0, 1>>
    ELSE IF y[1] = 0 THEN <<Sign(x[1]), 0>>
    ELSE IF x[2] = 0 THEN <<x[1] * Sign(y[1]), 0>>
    ELSE Norm(x[1] * y[2], x[2] * y[1])

RECURSIVE RSumSeq(_, _)
RSumSeq(arr, idx) ==
    IF idx = <<>> THEN Float(0)
    ELSE RAdd(arr[Head(idx)], RSumSeq(arr, Tail(idx)))

(* x < t for a number x of an array and an integer t *)
RLess(x, t) ==
    IF x[2] = 0 THEN x[1] < 0
    ELSE x[1] < t * x[2]

--------------------------------------------------------------------------
(* log2 values: <<"fin", p, m>> is log2(p)/m with p a positive rational *)

LZero == <<"fin", Float(1), 1>>
LNaN == <<"nan", Float(1), 1>>
LInf == <<"inf", Float(1), 1>>
LNegInf == <<"ninf", Float(1), 1>>

Log2(q) ==
    IF q = NaN \/ q[1] < 0 THEN LNaN
    ELSE IF q[2] = 0 THEN LInf
    ELSE IF q[1] = 0 THEN LNegInf
    ELSE <<"fin", q, 1>>

LAdd(x, y) ==
    IF x[1] = "nan" \/ y[1] = "nan" THEN LNaN
    ELSE IF x[1] # "fin" /\ y[1] # "fin" THEN (IF x[1] = y[1] THEN x ELSE LNaN)
    ELSE IF x[1] # "fin" THEN x
    ELSE IF y[1] # "fin" THEN y
    ELSE <<"fin", RMul(x[2], y[2]), 1>>

LDivInt(x, n) ==
    IF x[1] = "nan" THEN LNaN
    ELSE IF x[1] = "inf" THEN (IF n < 0 THEN LNegInf ELSE LInf)
    ELSE IF x[1] = "ninf" THEN (IF n < 0 THEN LInf ELSE LNegInf)
    ELSE IF x[2] = Float(1) THEN (IF n = 0 THEN LNaN ELSE LZero)
    ELSE IF n = 0 THEN (IF x[2][1] > x[2][2] THEN LInf ELSE LNegInf)
    ELSE IF n > 0 THEN <<"fin", x[2], n>>
    ELSE <<"fin", <<x[2][2], x[2][1]>>, -n>>

--------------------------------------------------------------------------
(* Buffers.  heap maps a buffer to its dtype and contents; an array object *)
(* is a reference to a buffer.  <<0, "A">> and <<0, "B">> are the caller's *)
(* matrices, <<k, n>> is buffer n allocated by trial k.                    *)

RefA == <<0, "A">>
RefB == <<0, "B">>

Alloc(h, ref, buf) ==
    IF ref \in DOMAIN h THEN [h EXCEPT ![ref] = buf] ELSE (ref :> buf) @@ h

IntArray(m) == [dtype |-> "int", data |-> [c \in DOMAIN m |-> Float(m[c])]]
FloatArray(data) == [dtype |-> "float32", data |-> data]

NewBuffer_View(k, name, src) == src

(* numpy.copy, ndarray.astype and pickling each give the result a buffer of *)
(* its own; reshape gives a view of its argument's buffer                   *)
NewBuffer(k, name, src) == <<k, name>>

Cells(shape) == 0 .. (shape[1] * shape[2] - 1)

--------------------------------------------------------------------------
(* serpentin_iteration: validation *)

ShapeCheck(triangular, shapeA, shapeB) ==
    IF triangular
    THEN shapeA = shapeB
         /\ Len(shapeA) = 2
         /\ (IF shapeA[1] < shapeA[2] THEN shapeA[1] ELSE shapeA[2])
             = (IF shapeA[1] < shapeA[2] THEN shapeA[2] ELSE shapeA[1])
    ELSE shapeA = shapeB /\ Len(shapeA) = 2

ThresholdCheck_OrEqual(threshold, minthreshold) == minthreshold <= threshold

ThresholdCheck(threshold, minthreshold) == minthreshold < threshold

--------------------------------------------------------------------------
(* serpentin_iteration: the region graph *)

pixel_neighs_triangular_NoUp(i, j, size) ==
    (IF i < size - 1 /\ i + 1 >= j THEN {<<i + 1, j>>} ELSE {})
    \cup (IF j > 0 /\ i >= j - 1 THEN {<<i, j - 1>>} ELSE {})
    \cup (IF j < size - 1 /\ i >= j + 1 THEN {<<i, j + 1>>} ELSE {})

(* lines 76-89 *)
pixel_neighs_triangular(i, j, size) ==
    (IF i > 0 /\ i - 1 >= j THEN {<<i - 1, j>>} ELSE {})
    \cup (IF i < size - 1 /\ i + 1 >= j THEN {<<i + 1, j>>} ELSE {})
    \cup (IF j > 0 /\ i >= j - 1 THEN {<<i, j - 1>>} ELSE {})
    \cup (IF j < size - 1 /\ i >= j + 1 THEN {<<i, j + 1>>} ELSE {})

pixel_neighs_NoLeft(i, j, w, h) ==
    (IF i > 0 THEN {<<i - 1, j>>} ELSE {})
    \cup (IF i < w - 1 THEN {<<i + 1, j>>} ELSE {})
    \cup (IF j < h - 1 THEN {<<i, j + 1>>} ELSE {})

(* lines 91-100 *)
pixel_neighs(i, j, w, h) ==
    (IF i > 0 THEN {<<i - 1, j>>} ELSE {})
    \cup (IF i < w - 1 THEN {<<i + 1, j>>} ELSE {})
    \cup (IF j > 0 THEN {<<i, j - 1>>} ELSE {})
    \cup (IF j < h - 1 THEN {<<i, j + 1>>} ELSE {})

(* itertools.product(range(r), range(c)), filtered, as the list's positions *)
Product(r, c) == {<<i, j>> : i \in 0 .. (r - 1), j \in 0 .. (c - 1)}

Before(x, y) == x[1] < y[1] \/ (x[1] = y[1] /\ x[2] < y[2])

ListPos(S, x) == Cardinality({y \in S : Before(y, x)})

TriProduct(size) == {x \in Product(size[1], size[1]) : x[1] >= x[2]}

TriIndex(a, b) == ((a * (a + 1)) \div 2) + b

GraphCells(triangular, size) ==
    IF triangular THEN TriProduct(size) ELSE Product(size[1], size[2])

InitPixels(triangular, size) ==
    LET S == GraphCells(triangular, size)
    IN [id \in 0 .. (Cardinality(S) - 1) |->
          LET x == CHOOSE y \in S : ListPos(S, y) = id
          IN IF triangular THEN Some(<<x[1] * size[1] + x[2]>>)
                           ELSE Some(<<x[1] * size[2] + x[2]>>)]

InitNeighs(triangular, size) ==
    LET S == GraphCells(triangular, size)
    IN [id \in 0 .. (Cardinality(S) - 1) |->
          LET x == CHOOSE y \in S : ListPos(S, y) = id
          IN IF triangular
             THEN Some({TriIndex(n[1], n[2]) :
                          n \in pixel_neighs_triangular(x[1], x[2], size[1])})
             ELSE Some({n[1] * size[2] + n[2] :
                          n \in pixel_neighs(x[1], x[2], size[1], size[2])})]

InitStart(triangular, size) ==
    IF triangular THEN (size[1] * (size[1] + 1)) \div 2 ELSE size[1] * size[2]

Existent(pixels) == Cardinality({id \in DOMAIN pixels : pixels[id] # None})

Aggregate_First(arr, serp) == arr[serp[1]]

(* lines 163-168: the aggregates of a region over the working copies *)
Aggregate(arr, serp) ==
    IF Len(serp) = 1 THEN arr[serp[1]] ELSE RSumSeq(arr, serp)

MergePredicate_ThreshOnly(a, b, threshold, minthreshold) ==
    RLess(a, threshold) /\ RLess(b, threshold)

(* lines 170-172 *)
MergePredicate(a, b, threshold, minthreshold) ==
    LET thresh == RLess(a, threshold) /\ RLess(b, threshold)
        minthresh == RLess(a, minthreshold) \/ RLess(b, minthreshold)
    IN thresh \/ minthresh

DeleteMerged_Kept(list, min_neigh) == list

(* lines 190-191: the merged region's entry becomes None *)
DeleteMerged(list, min_neigh) == [list EXCEPT ![min_neigh] = None]

Merge_NoRewire(pixels, neighs, serp, min_neigh) ==
    IF pixels[min_neigh] = None
    THEN [exc |-> "ConcatenateError", pixels |-> pixels, neighs |-> neighs]
    ELSE
    LET p1 == [pixels EXCEPT ![serp] =
                  Some(Get(pixels[serp]) \o Get(pixels[min_neigh]))]
    IN IF min_neigh \notin Get(neighs[serp]) \/ serp \notin Get(neighs[min_neigh])
       THEN [exc |-> "KeyError", pixels |-> p1, neighs |-> neighs]
       ELSE
       LET others == Get(neighs[min_neigh]) \ {serp}
           n1 == [neighs EXCEPT
                    ![serp] = Some((Get(neighs[serp]) \ {min_neigh}) \cup others),
                    ![min_neigh] = Some(others)]
       IN IF \E z \in others : n1[z] = None \/ min_neigh \notin Get(n1[z])
          THEN [exc |-> "KeyError", pixels |-> p1, neighs |-> n1]
          ELSE [exc |-> "",
                pixels |-> DeleteMerged(p1, min_neigh),
                neighs |-> DeleteMerged(
                             [id \in DOMAIN n1 |->
                                IF id \in others
                                THEN Some(Get(n1[id]) \ {min_neigh})
                                ELSE n1[id]], min_neigh)]

Merge_NeighbourSurvives(pixels, neighs, serp, min_neigh) ==
    IF pixels[serp] = None
    THEN [exc |-> "ConcatenateError", pixels |-> pixels, neighs |-> neighs]
    ELSE
    LET p1 == [pixels EXCEPT ![min_neigh] =
                  Some(Get(pixels[min_neigh]) \o Get(pixels[serp]))]
    IN IF serp \notin Get(neighs[min_neigh]) \/ min_neigh \notin Get(neighs[serp])
       THEN [exc |-> "KeyError", pixels |-> p1, neighs |-> neighs]
       ELSE
       LET others == Get(neighs[serp]) \ {min_neigh}
           n1 == [neighs EXCEPT
                    ![min_neigh] = Some((Get(neighs[min_neigh]) \ {serp}) \cup others),
                    ![serp] = Some(others)]
       IN IF \E z \in others : n1[z] = None \/ serp \notin Get(n1[z])
          THEN [exc |-> "KeyError", pixels |-> p1, neighs |-> n1]
          ELSE [exc |-> "",
                pixels |-> DeleteMerged(p1, serp),
                neighs |-> DeleteMerged(
                             [id \in DOMAIN n1 |->
                                IF id \in others
                                THEN Some((Get(n1[id]) \ {serp}) \cup {min_neigh})
                                ELSE n1[id]], serp)]

Merge_UpdateFirst(pixels, neighs, serp, min_neigh) ==
    IF pixels[min_neigh] = None
    THEN [exc |-> "ConcatenateError", pixels |-> pixels, neighs |-> neighs]
    ELSE
    LET p1 == [pixels EXCEPT ![serp] =
                  Some(Get(pixels[serp]) \o Get(pixels[min_neigh]))]
    IN IF min_neigh \notin Get(neighs[serp]) \/ serp \notin Get(neighs[min_neigh])
       THEN [exc |-> "KeyError", pixels |-> p1, neighs |-> neighs]
       ELSE
       LET others == Get(neighs[min_neigh]) \ {serp}
           n1 == [neighs EXCEPT
                    ![serp] = Some((Get(neighs[serp]) \ {min_neigh})
                                   \cup Get(neighs[min_neigh])),
                    ![min_neigh] = Some(others)]
       IN IF \E z \in others : n1[z] = None \/ min_neigh \notin Get(n1[z])
          THEN [exc |-> "KeyError", pixels |-> p1, neighs |-> n1]
          ELSE [exc |-> "",
                pixels |-> DeleteMerged(p1, min_neigh),
                neighs |-> DeleteMerged(
                             [id \in DOMAIN n1 |->
                                IF id \in others
                                THEN Some((Get(n1[id]) \ {min_neigh}) \cup {serp})
                                ELSE n1[id]], min_neigh)]

(* lines 176-191: the graph after merging min_neigh into serp, or the     *)
(* exception the statement that fails raises                              *)
Merge(pixels, neighs, serp, min_neigh) ==
    IF pixels[min_neigh] = None
    THEN [exc |-> "ConcatenateError", pixels |-> pixels, neighs |-> neighs]
    ELSE
    LET p1 == [pixels EXCEPT ![serp] =
                  Some(Get(pixels[serp]) \o Get(pixels[min_neigh]))]
    IN IF min_neigh \notin Get(neighs[serp]) \/ serp \notin Get(neighs[min_neigh])
       THEN [exc |-> "KeyError", pixels |-> p1, neighs |-> neighs]
       ELSE
       LET others == Get(neighs[min_neigh]) \ {serp}
           n1 == [neighs EXCEPT
                    ![serp] = Some((Get(neighs[serp]) \ {min_neigh}) \cup others),
                    ![min_neigh] = Some(others)]
       IN IF \E z \in others : n1[z] = None \/ min_neigh \notin Get(n1[z])
          THEN [exc |-> "KeyError", pixels |-> p1, neighs |-> n1]
          ELSE [exc |-> "",
                pixels |-> DeleteMerged(p1, min_neigh),
                neighs |-> DeleteMerged(
                             [id \in DOMAIN n1 |->
                                IF id \in others
                                THEN Some((Get(n1[id]) \ {min_neigh}) \cup {serp})
                                ELSE n1[id]], min_neigh)]

--------------------------------------------------------------------------
(* serpentin_iteration: reduction, lines 200-232 *)

(* line 202: astype(float32) keeps the value of a count *)
AsFloat(arr) == [c \in DOMAIN arr |-> RMul(arr[c], Float(1))]

MeanFill_Sum(arr, serp) ==
    LET m == RMul(RSumSeq(arr, serp), Float(1))
    IN [c \in DOMAIN arr |-> IF c \in Range(serp) THEN m ELSE arr[c]]

(* lines 205-206: U[serp] = sum(U[serp]) * 1. / len(serp) *)
MeanFill(arr, serp) ==
    LET m == RDiv(RMul(RSumSeq(arr, serp), Float(1)), Float(Len(serp)))
    IN [c \in DOMAIN arr |-> IF c \in Range(serp) THEN m ELSE arr[c]]

(* lines 200, 204: the regions that are not None, in list order *)
RECURSIVE FillAll(_, _, _)
FillAll(arr, pixels, id) ==
    IF id \notin DOMAIN pixels THEN arr
    ELSE IF pixels[id] = None THEN FillAll(arr, pixels, id + 1)
    ELSE FillAll(MeanFill(arr, Get(pixels[id])), pixels, id + 1)

Row(c, size) == c \div size[2]
Col(c, size) == c % size[2]

Tril(arr, size) ==
    [c \in DOMAIN arr |-> IF Row(c, size) >= Col(c, size) THEN arr[c] ELSE Float(0)]

Transpose(arr, size) ==
    [c \in DOMAIN arr |-> arr[Col(c, size) * size[2] + Row(c, size)]]

DiagDiag(arr, size) ==
    [c \in DOMAIN arr |-> IF Row(c, size) = Col(c, size) THEN arr[c] ELSE Float(0)]

Symmetrize_KeepDiagonal(arr, size) ==
    LET t == Tril(arr, size)
        tt == Transpose(t, size)
    IN [c \in DOMAIN arr |-> RAdd(t[c], tt[c])]

(* lines 211-220 *)
Symmetrize(arr, size) ==
    LET t == Tril(arr, size)
        tt == Transpose(t, size)
        dd == DiagDiag(t, size)
    IN [c \in DOMAIN arr |-> RSub(RAdd(t[c], tt[c]), dd[c])]

(* lines 221-224 and 229-230; numpy.int of line 221 is the builtin int, as *)
(* in the numpy releases that define it                                   *)
LogRatio(triangular, u, v, size) ==
    [c \in DOMAIN u |->
       IF triangular /\ Row(c, size) < Col(c, size) THEN LZero
       ELSE Log2(RDiv(RMul(v[c], Float(1)), u[c]))]

Output(triangular, u, v, size) ==
    IF triangular
    THEN [Amod |-> Symmetrize(u, size), Bmod |-> Symmetrize(v, size),
          D |-> LogRatio(TRUE, u, v, size)]
    ELSE [Amod |-> u, Bmod |-> v, D |-> LogRatio(FALSE, u, v, size)]

--------------------------------------------------------------------------
(* State *)

TrialIds == 1 .. MaxIterations

IdleTrial ==
    [pc |-> "idle", A |-> None, B |-> None, U |-> None, V |-> None,
     pixels |-> <<>>, neighs |-> <<>>, start |-> 0, tot |-> 0,
     previous_existent |-> 0, current_existent |-> 0, i |-> 0,
     todo |-> {}, merges |-> 0, out |-> None]

CalledTrial(a, b) == [IdleTrial EXCEPT !.pc = "called", !.A = Some(a), !.B = Some(b)]

IdleDriver ==
    [pc |-> "none", sK |-> None, sA |-> None, sB |-> None, res |-> <<>>,
     idx |-> 0, ret |-> None]

(* <<threshold, minthreshold>>, the pairs the validation refuses included *)
Thresholds == (1 .. MaxThreshold) \X (0 .. MaxThreshold)

(* a cell is empty or holds MaxVal counts *)
Matrices(shape) == [Cells(shape) -> {0, MaxVal}]

(* the matrices the driver is called on: empty, or MaxVal in the first and *)
(* the last cell only                                                      *)
EndLoaded(shape) ==
    {m \in Matrices(shape) :
       \/ \A c \in Cells(shape) : m[c] = 0
       \/ \A c \in Cells(shape) :
            m[c] = MaxVal <=> c \in {0, shape[1] * shape[2] - 1}}

(* a direct call of serpentin_iteration *)
InitIteration(Shapes, inputs) ==
    \E shapeA \in Shapes, shapeB \in Shapes, tm \in Thresholds,
       tri \in BOOLEAN :
      \E a \in inputs[shapeA], b \in inputs[shapeB] :
        /\ args = [entry |-> "iteration", shapeA |-> shapeA, shapeB |-> shapeB,
                   A |-> a, B |-> b, threshold |-> tm[1], minthreshold |-> tm[2],
                   triangular |-> tri, iterations |-> 1, parallel |-> 1]
        /\ heap = (RefA :> IntArray(a)) @@ (RefB :> IntArray(b))
        /\ trial = [k \in TrialIds |->
                      IF k = 1 THEN CalledTrial(RefA, RefB) ELSE IdleTrial]
        /\ drv = IdleDriver

InitBinning ==
    \E shapeA \in DriverShapes, shapeB \in DriverShapes, tm \in Thresholds,
       tri \in BOOLEAN, iterations \in -1 .. MaxIterations,
       parallel \in PoolSizes :
      \E a \in EndLoaded(shapeA), b \in EndLoaded(shapeB) :
        /\ args = [entry |-> "binning", shapeA |-> shapeA, shapeB |-> shapeB,
                   A |-> a, B |-> b, threshold |-> tm[1], minthreshold |-> tm[2],
                   triangular |-> tri, iterations |-> iterations,
                   parallel |-> parallel]
        /\ heap = (RefA :> IntArray(a)) @@ (RefB :> IntArray(b))
        /\ trial = [k \in TrialIds |-> IdleTrial]
        /\ drv = [IdleDriver EXCEPT !.pc = "called"]

(* larger graphs, <<shape, triangular>>, called on uniform matrices *)
GraphModes == {<<<<1, 4>>, FALSE>>, <<<<2, 3>>, FALSE>>, <<<<3, 3>>, TRUE>>}

(* every cell empty, or every cell holding MaxVal counts *)
Uniform(shape) == {[c \in Cells(shape) |-> v] : v \in {0, MaxVal}}

(* a direct call on a pair of equal uniform matrices, min threshold 0 *)
InitGraph ==
    \E mode \in GraphModes, threshold \in 1 .. MaxThreshold :
      \E a \in Uniform(mode[1]) :
        /\ args = [entry |-> "iteration", shapeA |-> mode[1], shapeB |-> mode[1],
                   A |-> a, B |-> a, threshold |-> threshold, minthreshold |-> 0,
                   triangular |-> mode[2], iterations |-> 1, parallel |-> 1]
        /\ heap = (RefA :> IntArray(a)) @@ (RefB :> IntArray(a))
        /\ trial = [k \in TrialIds |->
                      IF k = 1 THEN CalledTrial(RefA, RefB) ELSE IdleTrial]
        /\ drv = IdleDriver

Init == InitIteration(TrialShapes, [shape \in TrialShapes |-> Matrices(shape)])

BinningInit ==
    \/ InitBinning
    \/ InitIteration(DriverShapes, [shape \in DriverShapes |-> EndLoaded(shape)])

--------------------------------------------------------------------------
(* serpentin_iteration, one action per step; k is the trial *)

(* lines 55-74 *)
trial_validate(k) ==
    /\ trial[k].pc = "called"
    /\ trial' = [trial EXCEPT ![k].pc =
                   IF ~ShapeCheck(args.triangular, args.shapeA, args.shapeB)
                   THEN "ValueError"
                   ELSE IF ~ThresholdCheck(args.threshold, args.minthreshold)
                        THEN "ValueError"
                        ELSE "validated"]
    /\ UNCHANGED <<args, heap, drv>>

(* lines 102-142 *)
trial_build(k) ==
    /\ trial[k].pc = "validated"
    /\ LET t == trial[k]
           size == args.shapeA
           refU == NewBuffer(k, "U", Get(t.A))
           refV == NewBuffer(k, "V", Get(t.B))
       IN /\ heap' = Alloc(Alloc(heap, refU, heap[Get(t.A)]), refV, heap[Get(t.B)])
          /\ trial' = [trial EXCEPT ![k] =
                [t EXCEPT !.pc = "while",
                          !.U = Some(refU), !.V = Some(refV),
                          !.pixels = InitPixels(args.triangular, size),
                          !.neighs = InitNeighs(args.triangular, size),
                          !.start = InitStart(args.triangular, size),
                          !.tot = InitStart(args.triangular, size),
                          !.previous_existent = 0,
                          !.current_existent = 1,
                          !.i = 0]]
    /\ UNCHANGED <<args, drv>>

(* line 155: the loop test; lines 157-159 when another pass starts *)
trial_while(k) ==
    /\ trial[k].pc = "while"
    /\ LET t == trial[k]
       IN trial' = [trial EXCEPT ![k] =
            IF t.current_existent # t.previous_existent
            THEN [t EXCEPT !.pc = "for", !.i = t.i + 1, !.tot = 0,
                           !.todo = DOMAIN t.pixels]
            ELSE [t EXCEPT !.pc = "reduce"]]
    /\ UNCHANGED <<args, heap, drv>>

RegionA(k, serp) ==
    Aggregate(heap[Get(trial[k].U)].data, Get(trial[k].pixels[serp]))
RegionB(k, serp) ==
    Aggregate(heap[Get(trial[k].V)].data, Get(trial[k].pixels[serp]))

Wants(k, serp) ==
    MergePredicate(RegionA(k, serp), RegionB(k, serp),
                   args.threshold, args.minthreshold)

(* line 160, a region that is None *)
visit_dead(k) ==
    /\ trial[k].pc = "for"
    /\ \E serp \in trial[k].todo :
         /\ trial[k].pixels[serp] = None
         /\ trial' = [trial EXCEPT ![k].todo = @ \ {serp}]
    /\ UNCHANGED <<args, heap, drv>>

(* lines 160-172, the predicate is false *)
visit_keep(k) ==
    /\ trial[k].pc = "for"
    /\ \E serp \in trial[k].todo :
         /\ trial[k].pixels[serp] # None
         /\ ~Wants(k, serp)
         /\ trial' = [trial EXCEPT ![k].todo = @ \ {serp}, ![k].tot = @ + 1]
    /\ UNCHANGED <<args, heap, drv>>

(* lines 160-191, the predicate is true and a neighbour is chosen *)
visit_merge(k) ==
    /\ trial[k].pc = "for"
    /\ \E serp \in trial[k].todo :
         /\ trial[k].pixels[serp] # None
         /\ Wants(k, serp)
         /\ \E min_neigh \in Get(trial[k].neighs[serp]) :
              LET t == trial[k]
                  m == Merge(t.pixels, t.neighs, serp, min_neigh)
              IN trial' = [trial EXCEPT ![k] =
                   [t EXCEPT !.todo = @ \ {serp}, !.tot = @ + 1,
                             !.pixels = m.pixels, !.neighs = m.neighs,
                             !.merges = IF m.exc = "" THEN @ + 1 ELSE @,
                             !.pc = IF m.exc = "" THEN "for" ELSE m.exc]]
    /\ UNCHANGED <<args, heap, drv>>

(* line 173, random.choice of an empty tuple *)
visit_raise(k) ==
    /\ trial[k].pc = "for"
    /\ \E serp \in trial[k].todo :
         /\ trial[k].pixels[serp] # None
         /\ Wants(k, serp)
         /\ Get(trial[k].neighs[serp]) = {}
         /\ trial' = [trial EXCEPT ![k].todo = @ \ {serp}, ![k].tot = @ + 1,
                                   ![k].pc = "IndexError"]
    /\ UNCHANGED <<args, heap, drv>>

(* lines 193-194 *)
end_pass(k) ==
    /\ trial[k].pc = "for"
    /\ trial[k].todo = {}
    /\ trial' = [trial EXCEPT ![k].previous_existent = trial[k].current_existent,
                              ![k].current_existent = Existent(trial[k].pixels),
                              ![k].pc = "while"]
    /\ UNCHANGED <<args, heap, drv>>

(* lines 200-232 *)
trial_reduce(k) ==
    /\ trial[k].pc = "reduce"
    /\ LET t == trial[k]
           size == args.shapeA
           refU == NewBuffer(k, "Uf", Get(t.U))
           refV == NewBuffer(k, "Vf", Get(t.V))
           u == FillAll(AsFloat(heap[Get(t.U)].data), t.pixels, 0)
           v == FillAll(AsFloat(heap[Get(t.V)].data), t.pixels, 0)
       IN /\ heap' = Alloc(Alloc(heap, refU, FloatArray(u)), refV, FloatArray(v))
          /\ trial' = [trial EXCEPT ![k] =
                [t EXCEPT !.pc = "done",
                          !.U = Some(refU), !.V = Some(refV),
                          !.out = Some(Output(args.triangular, u, v, size))]]
    /\ UNCHANGED <<args, drv>>

--------------------------------------------------------------------------
(* serpentin_binning *)

Errors == {"ValueError", "IndexError", "KeyError", "ConcatenateError"}

Finished(k) == trial[k].pc \in Errors \cup {"done"}

Running(k) == trial[k].pc \notin Errors \cup {"done", "idle"}

Tasks == {k \in TrialIds : k <= args.iterations}

(* lines 253-272 *)
binning_validate ==
    /\ drv.pc = "called"
    /\ drv' = [drv EXCEPT !.pc =
                 IF ~ShapeCheck(args.triangular, args.shapeA, args.shapeB)
                 THEN "ValueError"
                 ELSE IF ~ThresholdCheck(args.threshold, args.minthreshold)
                      THEN "ValueError"
                      ELSE "validated"]
    /\ UNCHANGED <<args, heap, trial>>

(* lines 274-291 and 299-305: the accumulators and the choice of the branch *)
binning_setup ==
    /\ drv.pc = "validated"
    /\ drv' = [drv EXCEPT
                 !.sK = Some([c \in Cells(args.shapeA) |-> LZero]),
                 !.sA = Some([c \in Cells(args.shapeA) |-> Float(0)]),
                 !.sB = Some([c \in Cells(args.shapeA) |-> Float(0)]),
                 !.idx = 1,
                 !.pc = IF args.parallel > 1 THEN "map" ELSE "loop"]
    /\ UNCHANGED <<args, heap, trial>>

(* line 291: a pool worker takes the next task, with its pickled arguments *)
pool_start ==
    /\ drv.pc = "map"
    /\ Cardinality({k \in Tasks : Running(k)}) < args.parallel
    /\ \E k \in Tasks :
         /\ trial[k].pc = "idle"
         /\ \A j \in Tasks : j < k => trial[j].pc # "idle"
         /\ LET refA == NewBuffer(k, "A", RefA)
                refB == NewBuffer(k, "B", RefB)
            IN /\ heap' = Alloc(Alloc(heap, refA, heap[RefA]), refB, heap[RefB])
               /\ trial' = [trial EXCEPT ![k] = CalledTrial(refA, refB)]
    /\ UNCHANGED <<args, drv>>

(* line 291: map returns the results in task order once every task is done *)
map_return ==
    /\ drv.pc = "map"
    /\ \A k \in Tasks : trial[k].pc = "done"
    /\ drv' = [drv EXCEPT !.res = [k \in Tasks |-> Get(trial[k].out)],
                          !.idx = 1, !.pc = "sum"]
    /\ UNCHANGED <<args, heap, trial>>

(* line 291: map re-raises a task's exception *)
map_raise ==
    /\ drv.pc = "map"
    /\ \A k \in Tasks : Finished(k)
    /\ \E k \in Tasks :
         /\ trial[k].pc \in Errors
         /\ drv' = [drv EXCEPT !.pc = trial[k].pc]
    /\ UNCHANGED <<args, heap, trial>>

Accumulate_Overwrite(d, r) ==
    [d EXCEPT !.sK = Some(r.D), !.sA = Some(r.Amod), !.sB = Some(r.Bmod),
              !.idx = d.idx + 1]

Accumulate(d, r) ==
    [d EXCEPT !.sK = Some([c \in DOMAIN r.D |-> LAdd(Get(d.sK)[c], r.D[c])]),
              !.sA = Some([c \in DOMAIN r.Amod |-> RAdd(Get(d.sA)[c], r.Amod[c])]),
              !.sB = Some([c \in DOMAIN r.Bmod |-> RAdd(Get(d.sB)[c], r.Bmod[c])]),
              !.idx = d.idx + 1]

(* lines 293-297 *)
sum_result ==
    /\ drv.pc = "sum"
    /\ drv.idx \in DOMAIN drv.res
    /\ drv' = Accumulate(drv, drv.res[drv.idx])
    /\ UNCHANGED <<args, heap, trial>>

(* lines 305-306: the next sequential trial is called on A and B themselves *)
seq_start ==
    /\ drv.pc = "loop"
    /\ drv.idx \in Tasks
    /\ trial[drv.idx].pc = "idle"
    /\ trial' = [trial EXCEPT ![drv.idx] = CalledTrial(RefA, RefB)]
    /\ UNCHANGED <<args, heap, drv>>

(* lines 306-316 *)
seq_accumulate ==
    /\ drv.pc = "loop"
    /\ drv.idx \in Tasks
    /\ trial[drv.idx].pc = "done"
    /\ drv' = Accumulate(drv, Get(trial[drv.idx].out))
    /\ UNCHANGED <<args, heap, trial>>

(* line 306: an exception of the trial leaves serpentin_binning *)
seq_raise ==
    /\ drv.pc = "loop"
    /\ drv.idx \in Tasks
    /\ trial[drv.idx].pc \in Errors
    /\ drv' = [drv EXCEPT !.pc = trial[drv.idx].pc]
    /\ UNCHANGED <<args, heap, trial>>

Average_PlusOne(d, iterations) ==
    [sA |-> [c \in DOMAIN Get(d.sA) |->
               RDiv(RMul(Get(d.sA)[c], Float(1)), Float(iterations + 1))],
     sB |-> [c \in DOMAIN Get(d.sB) |->
               RDiv(RMul(Get(d.sB)[c], Float(1)), Float(iterations + 1))],
     sK |-> [c \in DOMAIN Get(d.sK) |-> LDivInt(Get(d.sK)[c], iterations + 1)]]

(* lines 318-322 *)
Average(d, iterations) ==
    [sA |-> [c \in DOMAIN Get(d.sA) |->
               RDiv(RMul(Get(d.sA)[c], Float(1)), Float(iterations))],
     sB |-> [c \in DOMAIN Get(d.sB) |->
               RDiv(RMul(Get(d.sB)[c], Float(1)), Float(iterations))],
     sK |-> [c \in DOMAIN Get(d.sK) |-> LDivInt(Get(d.sK)[c], iterations)]]

binning_return ==
    /\ \/ drv.pc = "sum" /\ drv.idx \notin DOMAIN drv.res
       \/ drv.pc = "loop" /\ drv.idx \notin Tasks
    /\ drv' = [drv EXCEPT !.pc = "done", !.ret = Some(Average(drv, args.iterations))]
    /\ UNCHANGED <<args, heap, trial>>

Next ==
    \/ trial_validate(1)
    \/ trial_build(1)
    \/ trial_while(1)
    \/ visit_dead(1)
    \/ visit_keep(1)
    \/ visit_merge(1)
    \/ visit_raise(1)
    \/ end_pass(1)
    \/ trial_reduce(1)

BinningNext ==
    \/ \E k \in TrialIds : trial_validate(k)
    \/ \E k \in TrialIds : trial_build(k)
    \/ \E k \in TrialIds : trial_while(k)
    \/ \E k \in TrialIds : visit_dead(k)
    \/ \E k \in TrialIds : visit_keep(k)
    \/ \E k \in TrialIds : visit_merge(k)
    \/ \E k \in TrialIds : visit_raise(k)
    \/ \E k \in TrialIds : end_pass(k)
    \/ \E k \in TrialIds : trial_reduce(k)
    \/ binning_validate
    \/ binning_setup
    \/ pool_start
    \/ map_return
    \/ map_raise
    \/ sum_result
    \/ seq_start
    \/ seq_accumulate
    \/ seq_raise
    \/ binning_return

Spec == Init /\ [][Next]_vars

BinningSpec == BinningInit /\ [][BinningNext]_vars

GraphSpec == InitGraph /\ [][Next]_vars

--------------------------------------------------------------------------
(* Vocabulary of the properties *)

HasGraph(k) == trial[k].pc \in {"while", "for", "reduce", "done"} \cup Errors
               /\ trial[k].pixels # <<>>

Alive(k) == {id \in DOMAIN trial[k].pixels : trial[k].pixels[id] # None}

Members(k, id) == Get(trial[k].pixels[id])

Neighbours(k, id) == Get(trial[k].neighs[id])

(* the pixel universe, as flat indices of the input matrix *)
Universe ==
    {r * args.shapeA[2] + c :
       <<r, c>> \in {x \in (0 .. args.shapeA[1] - 1) \X (0 .. args.shapeA[2] - 1) :
                       args.triangular => x[1] >= x[2]}}

(* the places <<region, position>> of the alive member lists that hold p *)
Holders(k, p) ==
    {w \in UNION {{<<id, x>> : x \in 1 .. Len(Members(k, id))} : id \in Alive(k)} :
       Members(k, w[1])[w[2]] = p}

RECURSIVE SumOver(_, _)
SumOver(f, S) ==
    IF S = {} THEN 0
    ELSE LET x == CHOOSE y \in S : TRUE IN f[x] + SumOver(f, S \ {x})

RECURSIVE RSumOver(_, _)
RSumOver(f, S) ==
    IF S = {} THEN <<0, 1>>
    ELSE LET x == CHOOSE y \in S : TRUE IN RAdd(f[x], RSumOver(f, S \ {x}))

MassA(k, id) == SumOver(args.A, Range(Members(k, id)))
MassB(k, id) == SumOver(args.B, Range(Members(k, id)))

RuntimeErrors == {"IndexError", "KeyError", "ConcatenateError"}

--------------------------------------------------------------------------
(* C1. Coverage: once the graph of a trial is built, and after every merge, *)
(* every pixel of the pixel universe (the full grid, or the cells with      *)
(* row >= col in triangular mode) is held by exactly one alive region,      *)
(* exactly once, and the alive regions hold nothing else.                   *)
C1_Coverage ==
    \A k \in TrialIds :
      HasGraph(k) =>
        /\ \A p \in Universe : Cardinality(Holders(k, p)) = 1
        /\ \A id \in Alive(k) : Range(Members(k, id)) \subseteq Universe

(* a converged triangular trial in which two merges took place *)
C1_Witness ==
    /\ args.triangular
    /\ trial[1].pc = "done"
    /\ trial[1].merges >= 2

(* C2. Zero-neighbour skip: for validated input a visited region that      *)
(* satisfies the merge predicate and has no neighbour is skipped, so that  *)
(* no trial ever ends in an error raised by the merger.                    *)
C2_NoRuntimeError ==
    \A k \in TrialIds :
      (args.shapeA = args.shapeB /\ args.minthreshold < args.threshold)
        => trial[k].pc \notin RuntimeErrors

(* C3. Threshold satisfaction or isolation: when the pass loop has exited, *)
(* every alive region has (a >= T or b >= T) and a >= M and b >= M over    *)
(* its members, or has no neighbour.                                       *)
C3_ThresholdOrIsolated ==
    \A k \in TrialIds :
      trial[k].pc \in {"reduce", "done"} =>
        \A id \in Alive(k) :
          \/ /\ MassA(k, id) >= args.threshold \/ MassB(k, id) >= args.threshold
             /\ MassA(k, id) >= args.minthreshold
             /\ MassB(k, id) >= args.minthreshold
          \/ Neighbours(k, id) = {}

(* the loop has exited after a merge, leaving a region that has neighbours *)
C3_Witness ==
    /\ trial[1].pc = "reduce"
    /\ trial[1].merges >= 1
    /\ \E id \in Alive(1) : Neighbours(1, id) # {} /\ Len(Members(1, id)) >= 2

(* C4. Monotonic convergence: the number of alive regions is the initial   *)
(* count less one per merge, there are at most initial_count - 1 merges,   *)
(* and the pass loop stops at the reduction step: no trial stops anywhere  *)
(* else.                                                                   *)
C4_MonotonicConvergence ==
    \A k \in TrialIds :
      HasGraph(k) =>
        /\ Existent(trial[k].pixels) = trial[k].start - trial[k].merges
        /\ trial[k].merges <= trial[k].start - 1
        /\ trial[k].pc \in {"while", "for", "reduce", "done"}

(* C5. Driver parameter validation: with iterations <= 0 or parallel <= 0  *)
(* the driver starts no trial and returns no result.                       *)
C5_RejectsBadParameters ==
    (args.entry = "binning" /\ (args.iterations <= 0 \/ args.parallel <= 0))
      => /\ drv.pc \notin {"map", "loop", "sum", "done"}
         /\ drv.ret = None
         /\ \A k \in TrialIds : trial[k].pc = "idle"

--------------------------------------------------------------------------
InvalidInput ==
    \/ args.minthreshold >= args.threshold
    \/ args.shapeA # args.shapeB
    \/ args.triangular /\ args.shapeA[1] # args.shapeA[2]

NoGraph(k) ==
    /\ trial[k].pixels = <<>> /\ trial[k].neighs = <<>>
    /\ trial[k].U = None /\ trial[k].V = None
    /\ trial[k].out = None

(* C6. Input validation precedes all work: with min_threshold >= threshold, *)
(* matrices of different shapes, or triangular mode on a non-square matrix, *)
(* a call of either entry point is either not yet validated or has ended in *)
(* the validation error, no buffer, graph or accumulator exists, no trial   *)
(* has started in the driver and nothing is returned; with none of the      *)
(* three, no validation error is raised.                                    *)
C6_ValidationFirst ==
    /\ InvalidInput =>
         /\ DOMAIN heap = {RefA, RefB}
         /\ \A k \in TrialIds : NoGraph(k)
         /\ args.entry = "iteration" =>
              trial[1].pc \in {"called", "ValueError"}
         /\ args.entry = "binning" =>
              /\ drv.pc \in {"called", "ValueError"}
              /\ drv.sK = None /\ drv.sA = None /\ drv.sB = None
              /\ drv.ret = None
              /\ \A k \in TrialIds : trial[k].pc = "idle"
    /\ ~InvalidInput =>
         /\ drv.pc # "ValueError"
         /\ \A k \in TrialIds : trial[k].pc # "ValueError"

(* the driver has refused triangular mode on a non-square pair *)
C6_Witness ==
    /\ args.entry = "binning"
    /\ args.triangular /\ args.shapeA = args.shapeB
    /\ args.shapeA[1] # args.shapeA[2]
    /\ args.minthreshold < args.threshold
    /\ drv.pc = "ValueError"

RECURSIVE TotalR(_, _, _)
TotalR(field, c, n) ==
    IF n = 0 THEN <<0, 1>>
    ELSE RAdd(TotalR(field, c, n - 1), Get(trial[n].out)[field][c])

RECURSIVE TotalL(_, _)
TotalL(c, n) ==
    IF n = 0 THEN LZero
    ELSE LAdd(TotalL(c, n - 1), Get(trial[n].out).D[c])

(* C7. Order-independent reduction: with iterations = N >= 1 the driver    *)
(* sums and returns only when all N trials are done, and what it returns   *)
(* is, cell by cell, the sum of the N trial outputs, each taken once,      *)
(* divided by N, whatever the order in which the trials ran and finished.  *)
C7_AverageOfAll ==
    (args.entry = "binning" /\ args.iterations >= 1) =>
      /\ drv.pc \in {"sum", "done"} =>
           \A k \in 1 .. args.iterations : trial[k].pc = "done"
      /\ drv.pc = "done" =>
           /\ \A k \in 1 .. args.iterations : trial[k].pc = "done"
           /\ \A c \in Cells(args.shapeA) :
                /\ Get(drv.ret).sA[c]
                     = RDiv(TotalR("Amod", c, args.iterations), <<args.iterations, 1>>)
                /\ Get(drv.ret).sB[c]
                     = RDiv(TotalR("Bmod", c, args.iterations), <<args.iterations, 1>>)
                /\ Get(drv.ret).sK[c]
                     = LDivInt(TotalL(c, args.iterations), args.iterations)

(* the pool has returned the average of two trials whose outputs differ *)
C7_Witness ==
    /\ args.entry = "binning"
    /\ args.iterations = 2 /\ args.parallel = 2
    /\ drv.pc = "done"
    /\ Get(trial[1].out).Amod # Get(trial[2].out).Amod

Graph(k) == <<trial[k].pixels, trial[k].neighs>>

Control(k) == <<trial[k].pc, trial[k].todo>>

OwnBuffers(k) == [ref \in {r \in DOMAIN heap : r[1] = k} |-> heap[ref]]

(* C8. Trial isolation and read-only inputs: no step changes the caller's  *)
(* matrices A and B, and the region graph and the buffers of a trial       *)
(* change only in a step of that trial, also while other trials run.       *)
C8_Isolation ==
    [][/\ heap'[RefA] = [dtype |-> "int", data |-> [c \in DOMAIN args.A |-> <<args.A[c], 1>>]]
       /\ heap'[RefB] = [dtype |-> "int", data |-> [c \in DOMAIN args.B |-> <<args.B[c], 1>>]]
       /\ args' = args
       /\ \A k \in TrialIds :
            (Graph(k)' # Graph(k) \/ OwnBuffers(k)' # OwnBuffers(k))
              => /\ Control(k)' # Control(k)
                 /\ \A j \in TrialIds \ {k} : trial'[j] = trial[j]]_vars

(* one pool trial is done, having merged, while another is in its pass *)
C8_Witness ==
    /\ args.entry = "binning" /\ args.parallel > 1
    /\ trial[1].pc = "for" /\ trial[1].merges >= 1
    /\ trial[2].pc = "done" /\ trial[2].merges >= 1

(* C9. Mass conservation in full-grid mode: when a trial is done,          *)
(* sum(Amod) = sum(A) and sum(Bmod) = sum(B); for each alive region the    *)
(* mean written into a member pixel times the member count is the region's *)
(* aggregate, and the aggregates add up to the input's total.              *)
C9_MassConserved ==
    \A k \in TrialIds :
      (trial[k].pc = "done" /\ ~args.triangular) =>
        LET out == Get(trial[k].out)
            all == Cells(args.shapeA)
        IN /\ RSumOver(out.Amod, all) = <<SumOver(args.A, all), 1>>
           /\ RSumOver(out.Bmod, all) = <<SumOver(args.B, all), 1>>
           /\ \A id \in Alive(k) : \A p \in Range(Members(k, id)) :
                /\ RMul(out.Amod[p], <<Len(Members(k, id)), 1>>) = <<MassA(k, id), 1>>
                /\ RMul(out.Bmod[p], <<Len(Members(k, id)), 1>>) = <<MassB(k, id), 1>>
           /\ SumOver([id \in Alive(k) |-> MassA(k, id)], Alive(k)) = SumOver(args.A, all)
           /\ SumOver([id \in Alive(k) |-> MassB(k, id)], Alive(k)) = SumOver(args.B, all)

(* a full-grid trial is done with a region whose mean is not a cell's count *)
C9_Witness ==
    /\ ~args.triangular
    /\ trial[1].pc = "done"
    /\ \E id \in Alive(1) : \E p \in Range(Members(1, id)) :
         Get(trial[1].out).Amod[p] # <<args.A[p], 1>>

IsSymmetric(m) ==
    \A r \in 0 .. args.shapeA[1] - 1 : \A c \in 0 .. args.shapeA[2] - 1 :
      m[r * args.shapeA[2] + c] = m[c * args.shapeA[2] + r]

LowerTriangle ==
    {r * args.shapeA[2] + c :
       <<r, c>> \in {x \in (0 .. args.shapeA[1] - 1) \X (0 .. args.shapeA[2] - 1) :
                       x[1] >= x[2]}}

TriangularDone(k) ==
    /\ args.triangular
    /\ trial[k].pc = "done"
    /\ IsSymmetric(args.A) /\ IsSymmetric(args.B)

(* C10, as stated. Mass conservation in triangular mode: for a symmetric   *)
(* square pair, when a triangular trial is done the reconstructed full     *)
(* matrices have sum(Amod) = sum(A) and sum(Bmod) = sum(B).                *)
C10_TriangularMassConserved ==
    \A k \in TrialIds :
      TriangularDone(k) =>
        LET out == Get(trial[k].out)
            all == Cells(args.shapeA)
        IN /\ RSumOver(out.Amod, all) = <<SumOver(args.A, all), 1>>
           /\ RSumOver(out.Bmod, all) = <<SumOver(args.B, all), 1>>

(* C10, amended. For a symmetric square pair, when a triangular trial is   *)
(* done the reconstructed matrices conserve the mass of the lower triangle *)
(* (row >= col, the diagonal included): the sums of Amod and of A over it  *)
(* are equal, and so are those of Bmod and of B.                           *)
C10_LowerTriangleMassConserved ==
    \A k \in TrialIds :
      TriangularDone(k) =>
        LET out == Get(trial[k].out)
        IN /\ RSumOver(out.Amod, LowerTriangle) = <<SumOver(args.A, LowerTriangle), 1>>
           /\ RSumOver(out.Bmod, LowerTriangle) = <<SumOver(args.B, LowerTriangle), 1>>

(* a triangular trial on a symmetric pair is done and the full sums differ *)
C10_Witness ==
    /\ TriangularDone(1)
    /\ trial[1].merges >= 1
    /\ RSumOver(Get(trial[1].out).Amod, Cells(args.shapeA))
         # <<SumOver(args.A, Cells(args.shapeA)), 1>>

--------------------------------------------------------------------------
(* what a direct call of serpentin_iteration on the caller's A and B       *)
(* returns when its draws leave the graph of trial k                       *)
DirectOutput(k) ==
    Output(args.triangular,
           FillAll(AsFloat(IntArray(args.A).data), trial[k].pixels, 0),
           FillAll(AsFloat(IntArray(args.B).data), trial[k].pixels, 0),
           args.shapeA)

(* C11. Averaging idempotence: when the driver, run with iterations = 1 in *)
(* the sequential branch or through the pool, has returned, the triple it  *)
(* returns is, cell by cell, the triple (Amod, Bmod, D) a direct trial on  *)
(* A and B returns for the draws its one trial made.                       *)
C11_IterationsOne ==
    (args.entry = "binning" /\ args.iterations = 1 /\ drv.pc = "done") =>
      /\ Get(drv.ret).sA = DirectOutput(1).Amod
      /\ Get(drv.ret).sB = DirectOutput(1).Bmod
      /\ Get(drv.ret).sK = DirectOutput(1).D

(* the pool has run the one trial, which merged, and the driver has        *)
(* returned a mean that is not a whole count                               *)
C11_Witness ==
    /\ args.entry = "binning"
    /\ args.iterations = 1 /\ args.parallel = 2
    /\ drv.pc = "done"
    /\ trial[1].merges >= 1
    /\ \E c \in Cells(args.shapeA) : Get(drv.ret).sA[c][2] > 1

--------------------------------------------------------------------------
(* every singleton pixel fails the merge predicate *)
NoMergeCase ==
    /\ \A p \in Universe :
         /\ args.A[p] >= args.threshold \/ args.B[p] >= args.threshold
         /\ args.A[p] >= args.minthreshold
         /\ args.B[p] >= args.minthreshold
    /\ args.triangular => IsSymmetric(args.A) /\ IsSymmetric(args.B)

AllSingletons(k) ==
    /\ Alive(k) = DOMAIN trial[k].pixels
    /\ \A id \in Alive(k) : Len(Members(k, id)) = 1

Unchanged(k) ==
    LET out == Get(trial[k].out)
    IN \A c \in Cells(args.shapeA) :
         /\ out.Amod[c] = <<args.A[c], 1>>
         /\ out.Bmod[c] = <<args.B[c], 1>>
         /\ args.A[c] = args.B[c] => out.D[c] = LZero

(* C13. No-merge case: when every singleton pixel fails the merge          *)
(* predicate, the trial performs no merge, its pass loop exits after one   *)
(* pass with all singletons alive, and it returns Amod = A, Bmod = B and   *)
(* D = 0 where A = B.                                                      *)
C13_NoMergeOnePass ==
    \A k \in TrialIds :
      (HasGraph(k) /\ NoMergeCase) =>
        /\ trial[k].merges = 0
        /\ AllSingletons(k)
        /\ trial[k].i <= 1
        /\ trial[k].pc \in {"reduce", "done"} => trial[k].i = 1
        /\ trial[k].pc = "done" => Unchanged(k)

--------------------------------------------------------------------------
(* the merge predicate on the sums of A and B over the members of a region *)
Predicate(a, b) ==
    \/ a < args.threshold /\ b < args.threshold
    \/ a < args.minthreshold
    \/ b < args.minthreshold

(* the step visits region serp of trial k, which is alive *)
Visits(k, serp) ==
    /\ trial[k].pc = "for"
    /\ serp \in trial[k].todo
    /\ serp \notin trial'[k].todo
    /\ trial[k].pixels[serp] # None

(* the step merges a region into region serp of trial k *)
Merges(k, serp) ==
    /\ trial'[k].merges = trial[k].merges + 1
    /\ trial'[k].pixels[serp] # None
    /\ Len(Get(trial'[k].pixels[serp])) > Len(Get(trial[k].pixels[serp]))

(* C14. Merge predicate: a visited alive region that has a neighbour       *)
(* initiates a merge if and only if (a < T and b < T) or a < M or b < M,   *)
(* a and b being the sums of A and B over the pixels it holds at the visit;*)
(* a region for which the predicate is false initiates no merge.           *)
C14_MergeIffPredicate ==
    [][\A k \in TrialIds : \A serp \in DOMAIN trial[k].pixels :
         Visits(k, serp) =>
           /\ Merges(k, serp) => Predicate(MassA(k, serp), MassB(k, serp))
           /\ (Predicate(MassA(k, serp), MassB(k, serp))
                 /\ Neighbours(k, serp) # {}) => Merges(k, serp)]_vars

(* in a later pass that has merged nothing yet, a grown region that has a  *)
(* neighbour has been visited and left alone, each of its pixels alone     *)
(* satisfying the predicate                                                *)
C14_Witness ==
    /\ trial[1].pc = "for" /\ trial[1].i >= 2
    /\ Existent(trial[1].pixels) = trial[1].current_existent
    /\ \E id \in Alive(1) \ trial[1].todo :
         /\ Len(Members(1, id)) >= 2
         /\ Neighbours(1, id) # {}
         /\ ~Predicate(MassA(1, id), MassB(1, id))
         /\ \A p \in Range(Members(1, id)) : Predicate(args.A[p], args.B[p])

--------------------------------------------------------------------------
(* the pass of trial k that has just finished has merged: fewer regions    *)
(* are alive than when it started (the initial count for the first pass,   *)
(* the count at the end of the pass before for a later one)                *)
PassMerged(k) ==
    Existent(trial[k].pixels)
      < (IF trial[k].i = 1 THEN trial[k].start ELSE trial[k].previous_existent)

(* C15. Convergence criterion: the pass loop runs another pass whenever    *)
(* the pass just finished has merged, so that when it has stopped at least *)
(* one pass was run and the last pass merged nothing, from the first pass  *)
(* on and for every input size.                                            *)
C15_StopsAtFixedPoint ==
    \A k \in TrialIds :
      trial[k].pc = "reduce" => (trial[k].i >= 1 /\ ~PassMerged(k))

--------------------------------------------------------------------------
(* C16. Merge rewiring and frame: when a visited region merges, one of its *)
(* neighbours dies; the region then holds the members of both, its         *)
(* neighbour set is the union of the two old neighbour sets less the two   *)
(* regions themselves; every other old neighbour z of the dead region has  *)
(* lost it and gained the region, also when z was a neighbour of the       *)
(* region already; and the members, the neighbour set and the alive flag   *)
(* of every region that was adjacent to neither are unchanged.             *)
C16_MergeRewiring ==
    [][\A k \in TrialIds : \A serp \in DOMAIN trial[k].pixels :
         (Visits(k, serp) /\ Merges(k, serp)) =>
           \E nb \in Neighbours(k, serp) :
             /\ trial[k].pixels[nb] # None
             /\ trial'[k].pixels[nb] = None /\ trial'[k].neighs[nb] = None
             /\ Range(Get(trial'[k].pixels[serp]))
                  = Range(Members(k, serp)) \cup Range(Members(k, nb))
             /\ Len(Get(trial'[k].pixels[serp]))
                  = Len(Members(k, serp)) + Len(Members(k, nb))
             /\ Get(trial'[k].neighs[serp])
                  = (Neighbours(k, serp) \cup Neighbours(k, nb)) \ {serp, nb}
             /\ \A z \in Neighbours(k, nb) \ {serp} :
                  /\ trial'[k].pixels[z] = trial[k].pixels[z]
                  /\ trial'[k].neighs[z] # None
                  /\ Get(trial'[k].neighs[z])
                       = (Neighbours(k, z) \ {nb}) \cup {serp}
             /\ \A z \in DOMAIN trial[k].pixels :
                  (z \notin {serp, nb}
                    /\ z \notin Neighbours(k, serp) \cup Neighbours(k, nb))
                  => /\ trial'[k].pixels[z] = trial[k].pixels[z]
                     /\ trial'[k].neighs[z] = trial[k].neighs[z]]_vars

(* a 2x3 grid after the merges of pixel 1 into 0 and of pixel 4 into 3:   *)
(* whichever came second, the other region was a neighbour of both merged *)
(* regions, and a third region (2 or 5) was adjacent to neither           *)
C16_Witness ==
    /\ args.shapeA = <<2, 3>>
    /\ trial[1].pc = "for" /\ trial[1].merges = 2
    /\ Alive(1) = {0, 2, 3, 5}
    /\ Members(1, 0) = <<0, 1>> /\ Members(1, 3) = <<3, 4>>
    /\ Neighbours(1, 0) = {2, 3} /\ Neighbours(1, 3) = {0, 5}

--------------------------------------------------------------------------
Symmetric(k) ==
    \A x \in Alive(k), y \in Alive(k) :
      y \in Neighbours(k, x) <=> x \in Neighbours(k, y)

(* C17. Neighbour symmetry: in every state of a trial that has its graph,  *)
(* in both modes, for all alive regions X and Y, Y is in X's neighbour set *)
(* if and only if X is in Y's; and once the graph is built a neighbour set *)
(* changes only in a step that merges.                                     *)
C17_NeighbourSymmetry ==
    /\ [](\A k \in TrialIds : HasGraph(k) => Symmetric(k))
    /\ [][\A k \in TrialIds :
            (HasGraph(k) /\ trial'[k].neighs # trial[k].neighs)
              => \E serp \in DOMAIN trial[k].pixels :
                   Visits(k, serp) /\ Merges(k, serp)]_vars

(* a triangular trial after two merges, with two grown regions adjacent *)
C17_Witness ==
    /\ args.triangular
    /\ trial[1].pc = "for" /\ trial[1].merges >= 2
    /\ \E x \in Alive(1), y \in Alive(1) :
         /\ y \in Neighbours(1, x) /\ x \in Neighbours(1, y)
         /\ Len(Members(1, x)) >= 2 /\ Len(Members(1, y)) >= 2

--------------------------------------------------------------------------
(* the pixel region id started from, lines 109-113 and 127-130 *)
OriginalPixel(id) == Get(InitPixels(args.triangular, args.shapeA)[id])[1]

(* the regions of trial k that die in the step *)
Dying(k) ==
    {id \in DOMAIN trial[k].pixels :
       trial[k].pixels[id] # None /\ trial'[k].pixels[id] = None}

(* C18. Death is permanent and identifiers are stable: in a merge the      *)
(* visited region survives under its identifier and exactly one region,    *)
(* an alive neighbour of it, dies; a dead region stays dead and without    *)
(* members, the visit of a dead region changes nothing of the graph (also  *)
(* later in the pass in which it died), a dead region is never the one     *)
(* merged into another; the identifiers are never renumbered: an alive     *)
(* region keeps the pixel it started from as its first member.             *)
C18_DeathPermanent ==
    /\ [](\A k \in TrialIds : HasGraph(k) =>
            \A id \in Alive(k) : Members(k, id)[1] = OriginalPixel(id))
    /\ [][\A k \in TrialIds : HasGraph(k) =>
            /\ DOMAIN trial'[k].pixels = DOMAIN trial[k].pixels
            /\ \A id \in DOMAIN trial[k].pixels :
                 trial[k].pixels[id] = None =>
                   /\ trial'[k].pixels[id] = None
                   /\ trial'[k].neighs[id] = None
            /\ \A serp \in DOMAIN trial[k].pixels :
                 /\ (Visits(k, serp) /\ Merges(k, serp)) =>
                      \E nb \in Neighbours(k, serp) \ {serp} : Dying(k) = {nb}
                 /\ (serp \in trial[k].todo /\ serp \notin trial'[k].todo
                       /\ trial[k].pixels[serp] = None) =>
                      /\ Graph(k)' = Graph(k)
                      /\ trial'[k].merges = trial[k].merges
            /\ Dying(k) # {} =>
                 \E serp \in DOMAIN trial[k].pixels :
                   Visits(k, serp) /\ Merges(k, serp)]_vars

(* in the first pass, after two merges, a region that died in this pass   *)
(* has been visited and passed over: more regions visited than counted    *)
C18_Witness ==
    /\ trial[1].pc = "for" /\ trial[1].i = 1
    /\ trial[1].merges >= 2
    /\ Cardinality(DOMAIN trial[1].pixels \ trial[1].todo) > trial[1].tot

--------------------------------------------------------------------------
(* C19. Well-formed adjacency: in every state of a trial that has its      *)
(* graph, the neighbour set of an alive region holds neither the region's  *)
(* own identifier nor the identifier of a dead region, so that a neighbour *)
(* chosen from it is an alive region other than the visited one, and no    *)
(* merge fails on a dead or missing region.                                *)
C19_WellFormedAdjacency ==
    \A k \in TrialIds :
      HasGraph(k) =>
        /\ \A id \in Alive(k) :
             /\ trial[k].neighs[id] # None
             /\ id \notin Neighbours(k, id)
             /\ Neighbours(k, id) \subseteq Alive(k)
        /\ trial[k].pc \notin {"KeyError", "ConcatenateError"}

(* after three merges, with dead regions about, a region of three or more  *)
(* pixels has two neighbours or more                                       *)
C19_Witness ==
    /\ trial[1].pc = "for" /\ trial[1].merges >= 3
    /\ \E id \in Alive(1) :
         /\ Len(Members(1, id)) >= 3
         /\ Cardinality(Neighbours(1, id)) >= 2

--------------------------------------------------------------------------
(* pixels p and q of the pixel universe are next to each other in a row or *)
(* in a column of the matrix                                               *)
InUniverse(p) ==
    /\ p \in Cells(args.shapeA)
    /\ args.triangular => Row(p, args.shapeA) >= Col(p, args.shapeA)

Adjacent(p, q) ==
    /\ InUniverse(p) /\ InUniverse(q)
    /\ Abs(Row(p, args.shapeA) - Row(q, args.shapeA))
         + Abs(Col(p, args.shapeA) - Col(q, args.shapeA)) = 1

Touching(k, x, y) ==
    \E p \in Range(Members(k, x)), q \in Range(Members(k, y)) : Adjacent(p, q)

(* the pixels of S reached from R by steps between adjacent pixels *)
RECURSIVE Grow(_, _)
Grow(S, R) ==
    LET more == R \cup {q \in S : \E p \in R : Adjacent(p, q)}
    IN IF more = R THEN R ELSE Grow(S, more)

Connected(S) == S = {} \/ Grow(S, {CHOOSE p \in S : TRUE}) = S

(* C20. The neighbour sets are the quotient of the pixel grid: in every    *)
(* state of a trial that has its graph, in both modes, for distinct alive  *)
(* regions X and Y, Y is in X's neighbour set if and only if a pixel of X  *)
(* is 4-adjacent, within the pixel universe, to a pixel of Y; the pixels   *)
(* of every alive region are 4-connected; and an alive region has an empty *)
(* neighbour set only when it is the only alive region.                    *)
C20_QuotientAdjacency ==
    \A k \in TrialIds :
      HasGraph(k) =>
        \A x \in Alive(k) :
          /\ \A y \in Alive(k) \ {x} :
               y \in Neighbours(k, x) <=> Touching(k, x, y)
          /\ Connected(Range(Members(k, x)))
          /\ Neighbours(k, x) = {} => Alive(k) = {x}

(* an alive region of a full grid that bends: three or more pixels over    *)
(* two rows and two columns, with another region alive next to it          *)
C20_Witness ==
    /\ ~args.triangular
    /\ trial[1].pc = "for"
    /\ \E x \in Alive(1) :
         /\ Len(Members(1, x)) >= 3
         /\ Cardinality({Row(p, args.shapeA) : p \in Range(Members(1, x))}) = 2
         /\ Cardinality({Col(p, args.shapeA) : p \in Range(Members(1, x))}) >= 2
         /\ Neighbours(1, x) # {}

====
